---- MODULE Spec2Model ----
(***************************************************************************)
(* Model of vector<T> (src/src/vector.h): a growable array built on a raw  *)
(* block, placement construction and the build-then-swap idiom.            *)
(*                                                                         *)
(* Every public member function is one action.  Its body is computed by    *)
(* operators over a machine record m that carries the containers, the heap *)
(* of raw blocks, the element instance counter and the fault-injection     *)
(* state of the call (the tick-th throwing-capable element operation       *)
(* fails when tick = fault).                                               *)
(***************************************************************************)
EXTENDS Integers, Sequences, FiniteSets, TLC

\* ---------------------------------------------------------------- bounds
MaxCap == 3      \* largest block (in slots) the model allocates
MaxVal == 2      \* element values are 1..MaxVal
NumAddr == 3     \* addresses operator new can return
MaxPushCap == 7  \* largest block in the runs that only push
MaxFault == 5    \* the injected fault hits one of the first MaxFault element operations

\* ---------------------------------------------------------------- domains
Vecs == {"a", "b"}          \* the container objects of the program
Tmp == "tmp"                \* the temporary built inside a member function
Ids == Vecs \cup {Tmp}
Values == 1..MaxVal
Addrs == 1..NumAddr
Null == 0                   \* nullptr
Raw == 0                    \* a slot holding no constructed element

\* T* data_{nullptr}; size_t size_{0}; size_t capacity_{0};
\* live = FALSE: the object does not exist (not constructed, or destroyed)
EmptyVec == [live |-> TRUE, data |-> Null, size |-> 0, cap |-> 0]
NoVec == [live |-> FALSE, data |-> Null, size |-> 0, cap |-> 0]
NoBlock == [alloc |-> FALSE, slots |-> << >>]

VARIABLES
    vec,     \* Ids -> [live, data, size, cap]
    heap,    \* Addrs -> [alloc, slots]: the raw blocks and what is constructed in them
    inst,    \* constructed-but-not-destroyed element instances (the instance counter)
    last     \* the last call: its inputs, the state before it and what it did

vars == <<vec, heap, inst, last>>

\* ------------------------------------------------- element type (element.h)
\* A throwing-capable element operation (fault_injection_point in a copy or
\* move constructor or an assignment): the fault-th one of the call throws.
ElemOp(m) ==
    [m EXCEPT !.tick = @ + 1,
              !.thrown = (m.fault = m.tick + 1),
              !.injected = @ \/ (m.fault = m.tick + 1)]

\* ------------------------------------------------------- storage primitives
\* operator new(sizeof(T) * n): a fresh block at address a, nothing constructed
OperatorNew(m, a, n) ==
    [m EXCEPT !.heap[a] = [alloc |-> TRUE, slots |-> [i \in 1..n |-> Raw]],
              !.nalloc = @ + 1,
              !.err = @ \/ m.heap[a].alloc]

\* operator delete(p): releases the block; a null pointer is ignored
OperatorDelete(m, p) ==
    IF p = Null THEN m
    ELSE [m EXCEPT !.heap[p] = NoBlock,
                   !.nfree = @ + 1,
                   !.err = @ \/ ~m.heap[p].alloc]

\* new (p + i) T(val): constructs one element in slot i of block p
ConstructAt(m, p, i, val) ==
    LET m1 == ElemOp(m) IN
    IF m1.thrown THEN m1
    ELSE IF p = Null \/ i >= Len(m1.heap[p].slots) THEN [m1 EXCEPT !.err = TRUE]
    ELSE [m1 EXCEPT !.heap[p].slots[i + 1] = val,
                    !.inst = @ + 1,
                    !.ncopy = @ + 1,
                    !.err = @ \/ m1.heap[p].slots[i + 1] # Raw]

\* p[i].~T(): destroys the element in slot i of block p
DestroyAt(m, p, i) ==
    IF p = Null \/ i < 0 \/ i >= Len(m.heap[p].slots) THEN [m EXCEPT !.err = TRUE]
    ELSE [m EXCEPT !.heap[p].slots[i + 1] = Raw,
                   !.inst = @ - 1,
                   !.ndtor = @ + 1,
                   !.dlog = Append(@, i),
                   !.err = @ \/ m.heap[p].slots[i + 1] = Raw]

\* mutant: the rollback loop stops one element early (j > 1)
RECURSIVE DestroyDown_StopsEarly(_, _, _)
DestroyDown_StopsEarly(m, p, j) ==
    IF j > 1 THEN DestroyDown_StopsEarly(DestroyAt(m, p, j - 1), p, j - 1) ELSE m

\* the catch block of the private constructor: for (j = i; j > 0; --j) data_[j - 1].~T();
RECURSIVE DestroyDown(_, _, _)
DestroyDown(m, p, j) ==
    IF j > 0 THEN DestroyDown(DestroyAt(m, p, j - 1), p, j - 1) ELSE m

\* ------------------------------------------------------------ read surface
\* operator[](index): data_[index]
At(m, v, i) == m.heap[m.vec[v].data].slots[i + 1]

\* the elements of container v in index order, [0, size)
ElemsOf(vs, hp, v) ==
    IF vs[v].data = Null THEN << >>
    ELSE [i \in 1..vs[v].size |-> hp[vs[v].data].slots[i]]

\* --------------------------------------------------------------- lifecycle
\* void swap(vector& other) noexcept
swap(m, v, o) ==
    [m EXCEPT !.vec[v].data = m.vec[o].data, !.vec[o].data = m.vec[v].data,
              !.vec[v].size = m.vec[o].size, !.vec[o].size = m.vec[v].size,
              !.vec[v].cap = m.vec[o].cap, !.vec[o].cap = m.vec[v].cap]

\* void pop_back(): back().~T(); size_--;
pop_back(m, v) ==
    [DestroyAt(m, m.vec[v].data, m.vec[v].size - 1) EXCEPT !.vec[v].size = @ - 1]

RECURSIVE PopLoop(_, _, _)
PopLoop(m, v, n) ==
    IF n > 0 THEN PopLoop(pop_back(m, v), v, n - 1) ELSE m

\* mutant: the elements are destroyed from index 0 upwards
clear_FrontToBack(m, v) ==
    LET p == m.vec[v].data  sz == m.vec[v].size IN
    IF sz = 0 THEN m
    ELSE [m EXCEPT !.heap[p].slots = [i \in DOMAIN @ |-> IF i <= sz THEN Raw ELSE @[i]],
                   !.inst = @ - sz,
                   !.ndtor = @ + sz,
                   !.dlog = @ \o [i \in 1..sz |-> i - 1],
                   !.vec[v].size = 0]

\* void clear() noexcept: sz pops, then size_ = 0
clear(m, v) ==
    [PopLoop(m, v, m.vec[v].size) EXCEPT !.vec[v].size = 0]

\* ~vector() noexcept: clear(); operator delete(data_); data_ = nullptr;
Destructor(m, v) ==
    LET m1 == clear(m, v) IN
    [OperatorDelete(m1, m1.vec[v].data) EXCEPT !.vec[v] = NoVec]

\* vector() noexcept = default
DefaultCtor(m, v) ==
    [m EXCEPT !.vec[v] = EmptyVec]

\* the copy loop of the private constructor, from index i on; a failed copy
\* destroys what was built, releases the block and rethrows
RECURSIVE CopyLoop(_, _, _, _)
CopyLoop(m, d, s, i) ==
    IF i >= m.vec[s].size THEN m
    ELSE LET m1 == ConstructAt(m, m.vec[d].data, i, At(m, s, i)) IN
         IF m1.thrown
         THEN [OperatorDelete(DestroyDown(m1, m1.vec[d].data, i), m1.vec[d].data)
                  EXCEPT !.vec[d] = NoVec]
         ELSE CopyLoop(m1, d, s, i + 1)

\* mutant: no early return for new_capacity == 0, a block of no slots is allocated
PrivateCtor_AllocatesZero(m, d, s, new_capacity, a) ==
    IF d = s THEN [m EXCEPT !.vec[d] = EmptyVec]
    ELSE LET m1 == [OperatorNew(m, a, new_capacity) EXCEPT
                       !.vec[d] = [live |-> FALSE, data |-> a, size |-> 0, cap |-> 0]]
             m2 == CopyLoop(m1, d, s, 0)
         IN IF m2.thrown THEN m2
            ELSE [m2 EXCEPT !.vec[d].cap = new_capacity,
                            !.vec[d].size = m2.vec[s].size,
                            !.vec[d].live = TRUE]

\* vector(const vector& other, size_t new_capacity): builds d as a copy of s
\* in a block of new_capacity slots at address a
PrivateCtor(m, d, s, new_capacity, a) ==
    IF new_capacity = 0 \/ d = s THEN [m EXCEPT !.vec[d] = EmptyVec]
    ELSE LET m1 == [OperatorNew(m, a, new_capacity) EXCEPT
                       !.vec[d] = [live |-> FALSE, data |-> a, size |-> 0, cap |-> 0]]
             m2 == CopyLoop(m1, d, s, 0)
         IN IF m2.thrown THEN m2
            ELSE [m2 EXCEPT !.vec[d].cap = new_capacity,
                            !.vec[d].size = m2.vec[s].size,
                            !.vec[d].live = TRUE]

\* mutant: the copy is given the source's capacity
CopyCtor_KeepsCapacity(m, d, s, a) == PrivateCtor(m, d, s, m.vec[s].cap, a)

\* vector(const vector& other) : vector(other, other.size())
CopyCtor(m, d, s, a) == PrivateCtor(m, d, s, m.vec[s].size, a)

\* mutant: the source keeps its pointer, size and capacity
MoveCtor_LeavesSource(m, d, s) ==
    [m EXCEPT !.vec[d] = [live |-> TRUE, data |-> m.vec[s].data,
                          size |-> m.vec[s].size, cap |-> m.vec[s].cap]]

\* vector(vector&& other): std::exchange of the three members
MoveCtor(m, d, s) ==
    [m EXCEPT !.vec[d] = [live |-> TRUE, data |-> m.vec[s].data,
                          size |-> m.vec[s].size, cap |-> m.vec[s].cap],
              !.vec[s] = EmptyVec]

\* mutant: the old contents are dropped before the copy is built
CopyAssign_ClearsFirst(m, d, s, a) ==
    IF s = d THEN m
    ELSE LET m1 == CopyCtor(clear(m, d), Tmp, s, a) IN
         IF m1.thrown THEN m1
         ELSE Destructor(swap(m1, Tmp, d), Tmp)

\* mutant: no self-assignment check
CopyAssign_NoSelfCheck(m, d, s, a) ==
    LET m1 == CopyCtor(m, Tmp, s, a) IN
    IF m1.thrown THEN m1
    ELSE Destructor(swap(m1, Tmp, d), Tmp)

\* vector& operator=(const vector& other): vector(other).swap(*this);
CopyAssign(m, d, s, a) ==
    IF s = d THEN m
    ELSE LET m1 == CopyCtor(m, Tmp, s, a) IN
         IF m1.thrown THEN m1
         ELSE Destructor(swap(m1, Tmp, d), Tmp)

\* mutant: only other.swap(*this), the old contents go to the source
MoveAssign_SwapsOnly(m, d, s) ==
    IF s = d THEN m ELSE swap(m, s, d)

\* vector& operator=(vector&& other): vector{}.swap(*this); other.swap(*this);
MoveAssign(m, d, s) ==
    IF s = d THEN m
    ELSE LET m1 == Destructor(swap(DefaultCtor(m, Tmp), Tmp, d), Tmp) IN
         swap(m1, s, d)

\* ---------------------------------------------------------------- mutators
\* the by-value parameter T value of push_back: one element constructed from
\* the argument before the body runs, destroyed when the call ends
ParamCtor(m) ==
    LET m1 == ElemOp(m) IN
    IF m1.thrown THEN m1 ELSE [m1 EXCEPT !.inst = @ + 1, !.ncopy = @ + 1]

ParamDtor(m) ==
    [m EXCEPT !.inst = @ - 1, !.ndtor = @ + 1]

\* mutant: the fast path counts the slot as live before constructing in it
RECURSIVE push_back_CountsFirst(_, _, _, _)
push_back_CountsFirst(m, v, val, a) ==
    LET m0 == ParamCtor(m) IN
    IF m0.thrown THEN m0
    ELSE ParamDtor(
        IF m0.vec[v].size < m0.vec[v].cap
        THEN [ConstructAt(m0, m0.vec[v].data, m0.vec[v].size, val)
                 EXCEPT !.vec[v].size = @ + 1]
        ELSE LET new_capacity == IF m0.vec[v].cap = 0 THEN 1 ELSE m0.vec[v].cap * 2 + 1
                 m1 == PrivateCtor(m0, Tmp, v, new_capacity, a)
             IN IF m1.thrown THEN m1
                ELSE LET m2 == push_back_CountsFirst(m1, Tmp, val, a) IN
                     IF m2.thrown THEN Destructor(m2, Tmp)
                     ELSE Destructor(swap(m2, v, Tmp), Tmp))

\* mutant: growth doubles without the + 1
RECURSIVE push_back_Doubles(_, _, _, _)
push_back_Doubles(m, v, val, a) ==
    LET m0 == ParamCtor(m) IN
    IF m0.thrown THEN m0
    ELSE ParamDtor(
        IF m0.vec[v].size < m0.vec[v].cap
        THEN LET m1 == ConstructAt(m0, m0.vec[v].data, m0.vec[v].size, val) IN
             IF m1.thrown THEN m1 ELSE [m1 EXCEPT !.vec[v].size = @ + 1]
        ELSE LET new_capacity == IF m0.vec[v].cap = 0 THEN 1 ELSE m0.vec[v].cap * 2
                 m1 == PrivateCtor(m0, Tmp, v, new_capacity, a)
             IN IF m1.thrown THEN m1
                ELSE LET m2 == push_back_Doubles(m1, Tmp, val, a) IN
                     IF m2.thrown THEN Destructor(m2, Tmp)
                     ELSE Destructor(swap(m2, v, Tmp), Tmp))

\* void push_back(T value); val is the value of the argument expression and
\* a the address operator new returns if the call allocates
RECURSIVE push_back(_, _, _, _)
push_back(m, v, val, a) ==
    LET m0 == ParamCtor(m) IN
    IF m0.thrown THEN m0
    ELSE ParamDtor(
        IF m0.vec[v].size < m0.vec[v].cap
        THEN LET m1 == ConstructAt(m0, m0.vec[v].data, m0.vec[v].size, val) IN
             IF m1.thrown THEN m1 ELSE [m1 EXCEPT !.vec[v].size = @ + 1]
        ELSE LET new_capacity == IF m0.vec[v].cap = 0 THEN 1 ELSE m0.vec[v].cap * 2 + 1
                 m1 == PrivateCtor(m0, Tmp, v, new_capacity, a)
             IN IF m1.thrown THEN m1
                ELSE LET m2 == push_back(m1, Tmp, val, a) IN
                     IF m2.thrown THEN Destructor(m2, Tmp)
                     ELSE Destructor(swap(m2, v, Tmp), Tmp))

\* mutant: reallocates also when new_capacity == capacity()
reserve_Reallocates(m, v, new_capacity, a) ==
    IF new_capacity >= m.vec[v].cap
    THEN LET m1 == PrivateCtor(m, Tmp, v, new_capacity, a) IN
         IF m1.thrown THEN m1 ELSE Destructor(swap(m1, Tmp, v), Tmp)
    ELSE m

\* void reserve(size_t new_capacity)
reserve(m, v, new_capacity, a) ==
    IF new_capacity > m.vec[v].cap
    THEN LET m1 == PrivateCtor(m, Tmp, v, new_capacity, a) IN
         IF m1.thrown THEN m1 ELSE Destructor(swap(m1, Tmp, v), Tmp)
    ELSE m

\* mutant: the parameter is a reference; a full container is reallocated
\* first and the argument is read afterwards, through the old pointer
PushBackCall_ReadsLate(m, v, ref, a) ==
    IF ~ref.self THEN push_back(m, v, m.x, a)
    ELSE LET p == m.vec[v].data
             full == m.vec[v].size = m.vec[v].cap
             m1 == IF full THEN reserve(m, v, m.vec[v].cap * 2 + 1, a) ELSE m
         IN IF m1.thrown THEN m1
            ELSE LET stale == ~m1.heap[p].alloc
                     val == IF stale THEN Raw ELSE m1.heap[p].slots[ref.at + 1]
                 IN push_back([m1 EXCEPT !.err = @ \/ stale], v, val, a)

\* a.push_back(arg) with arg the caller's object or a reference to a[ref.at]:
\* the argument is copied into the by-value parameter when the call is made
PushBackCall(m, v, ref, a) ==
    push_back(m, v, IF ref.self THEN At(m, v, ref.at) ELSE m.x, a)

\* mutant: an empty container is left alone
shrink_to_fit_SkipsEmpty(m, v, a) ==
    IF m.vec[v].size # m.vec[v].cap /\ m.vec[v].size # 0
    THEN LET m1 == PrivateCtor(m, Tmp, v, m.vec[v].size, a) IN
         IF m1.thrown THEN m1 ELSE Destructor(swap(m1, Tmp, v), Tmp)
    ELSE m

\* void shrink_to_fit()
shrink_to_fit(m, v, a) ==
    IF m.vec[v].size # m.vec[v].cap
    THEN LET m1 == PrivateCtor(m, Tmp, v, m.vec[v].size, a) IN
         IF m1.thrown THEN m1 ELSE Destructor(swap(m1, Tmp, v), Tmp)
    ELSE m

\* std::swap(data_[i], data_[j]) on elements of block p:
\* T tmp(std::move(x)); x = std::move(y); y = std::move(tmp);
ElemSwap(m, p, i, j) ==
    LET x == m.heap[p].slots[i + 1]
        y == m.heap[p].slots[j + 1]
        m1 == ParamCtor(m)
    IN IF m1.thrown THEN m1
       ELSE ParamDtor(
           LET m2 == ElemOp(m1) IN
           IF m2.thrown THEN m2
           ELSE LET m3 == ElemOp([m2 EXCEPT !.heap[p].slots[i + 1] = y]) IN
                IF m3.thrown THEN m3
                ELSE [m3 EXCEPT !.heap[p].slots[j + 1] = x])

\* mutant: the shifting loop stops one swap early
RECURSIVE ShiftDown_StopsEarly(_, _, _, _)
ShiftDown_StopsEarly(m, v, ptr, index) ==
    IF ptr <= index + 1 THEN m
    ELSE LET m1 == ElemSwap(m, m.vec[v].data, ptr, ptr - 1) IN
         IF m1.thrown THEN m1 ELSE ShiftDown_StopsEarly(m1, v, ptr - 1, index)

\* for (ptr = end() - 1; ptr != data() + index; ptr--) std::iter_swap(ptr, ptr - 1);
RECURSIVE ShiftDown(_, _, _, _)
ShiftDown(m, v, ptr, index) ==
    IF ptr = index THEN m
    ELSE LET m1 == ElemSwap(m, m.vec[v].data, ptr, ptr - 1) IN
         IF m1.thrown THEN m1 ELSE ShiftDown(m1, v, ptr - 1, index)

\* iterator insert(const_iterator pos, const T& value), index = pos - begin()
insert(m, v, index, val, a) ==
    LET m1 == push_back(m, v, val, a) IN
    IF m1.thrown THEN m1
    ELSE [ShiftDown(m1, v, m1.vec[v].size - 1, index) EXCEPT !.ret = index]

\* for (i = 0; i < size() - l_index; i++) std::swap(data_[l_index + i], data_[f_index + i]);
RECURSIVE ShiftUp(_, _, _, _, _)
ShiftUp(m, v, f_index, l_index, i) ==
    IF i >= m.vec[v].size - l_index THEN m
    ELSE LET m1 == ElemSwap(m, m.vec[v].data, l_index + i, f_index + i) IN
         IF m1.thrown THEN m1 ELSE ShiftUp(m1, v, f_index, l_index, i + 1)

\* mutant: the surviving suffix is not shifted into the hole
erase_PopsTail(m, v, f_index, l_index) ==
    [PopLoop(m, v, l_index - f_index) EXCEPT !.ret = f_index]

\* iterator erase(const_iterator first, const_iterator last)
erase(m, v, f_index, l_index) ==
    LET m1 == ShiftUp(m, v, f_index, l_index, 0) IN
    IF m1.thrown THEN m1
    ELSE [PopLoop(m1, v, l_index - f_index) EXCEPT !.ret = f_index]

\* iterator erase(const_iterator pos): erase(pos, pos + 1)
erase1(m, v, index) == erase(m, v, index, index + 1)

\* ----------------------------------------------------------------- actions
FreeAddrs == {a \in Addrs : ~heap[a].alloc}

\* the machine at the start of a call with the fault set to hit element
\* operation number fault (0: no fault) and the caller's element object x
Call(fault, x) ==
    [vec |-> vec, heap |-> heap, inst |-> inst, x |-> x,
     fault |-> fault, tick |-> 0, thrown |-> FALSE, injected |-> FALSE,
     ncopy |-> 0, ndtor |-> 0, nalloc |-> 0, nfree |-> 0,
     dlog |-> << >>, err |-> FALSE, ret |-> 0]

\* A run is a sequence of calls of which at most the final one is observed:
\* last = NotObserved until a call records itself in last, and that call
\* ends the run (the shape of the tests: set-up, one call under a guard,
\* then the assertions).
NotObserved ==
    [op |-> "none", v |-> Tmp, s |-> Tmp, n |-> 0, n2 |-> 0,
     ref |-> [self |-> FALSE, at |-> 0],
     x |-> 0, thrown |-> FALSE, injected |-> FALSE, tick |-> 0,
     ncopy |-> 0, ndtor |-> 0, nalloc |-> 0, nfree |-> 0,
     dlog |-> << >>, err |-> FALSE, ret |-> 0,
     pre |-> [v \in Ids |-> NoVec],
     preheap |-> [a \in Addrs |-> NoBlock], preinst |-> 0]

\* the state after the call that ended in machine m
Return(m, op, v, s, n, n2, ref) ==
    /\ vec' = m.vec
    /\ heap' = m.heap
    /\ inst' = m.inst
    /\ \E observed \in BOOLEAN :
          last' = IF observed
                  THEN [op |-> op, v |-> v, s |-> s, n |-> n, n2 |-> n2, ref |-> ref,
                        x |-> m.x, thrown |-> m.thrown, injected |-> m.injected,
                        tick |-> m.tick,
                        ncopy |-> m.ncopy, ndtor |-> m.ndtor,
                        nalloc |-> m.nalloc, nfree |-> m.nfree,
                        dlog |-> m.dlog, err |-> m.err, ret |-> m.ret,
                        pre |-> vec, preheap |-> heap, preinst |-> inst]
                  ELSE NotObserved

NoRef == [self |-> FALSE, at |-> 0]

\* the arguments a caller can pass to push_back/insert on v: its own element
\* object x, or a reference to an element of v itself
Refs(v) ==
    [self : {FALSE}, at : Values] \cup [self : {TRUE}, at : 0..(vec[v].size - 1)]

RefVal(m, v, ref) == IF ref.self THEN At(m, v, ref.at) ELSE m.x

DefaultCtorOp(v) ==
    /\ ~vec[v].live
    /\ Return(DefaultCtor(Call(0, 0), v), "default_ctor", v, v, 0, 0, NoRef)

CopyCtorOp(d, s, fault, a) ==
    /\ ~vec[d].live /\ vec[s].live /\ d # s
    /\ Return(CopyCtor(Call(fault, 0), d, s, a), "copy_ctor", d, s, 0, 0, NoRef)

MoveCtorOp(d, s, fault) ==
    /\ ~vec[d].live /\ vec[s].live /\ d # s
    /\ Return(MoveCtor(Call(fault, 0), d, s), "move_ctor", d, s, 0, 0, NoRef)

CopyAssignOp(d, s, fault, a) ==
    /\ vec[d].live /\ vec[s].live
    /\ Return(CopyAssign(Call(fault, 0), d, s, a), "copy_assign", d, s, 0, 0, NoRef)

MoveAssignOp(d, s, fault) ==
    /\ vec[d].live /\ vec[s].live
    /\ Return(MoveAssign(Call(fault, 0), d, s), "move_assign", d, s, 0, 0, NoRef)

DestructorOp(v) ==
    /\ vec[v].live
    /\ Return(Destructor(Call(0, 0), v), "dtor", v, v, 0, 0, NoRef)

\* the growth of a full container stays within the blocks the model allocates
CanGrow(v, bound) == vec[v].size < vec[v].cap \/ vec[v].cap * 2 + 1 <= bound

PushBackWithin(v, ref, fault, a, bound) ==
    /\ vec[v].live /\ CanGrow(v, bound)
    /\ LET m == Call(fault, IF ref.self THEN 0 ELSE ref.at) IN
       Return(PushBackCall(m, v, ref, a), "push_back", v, v, 0, 0, ref)

PushBackOp(v, ref, fault, a) == PushBackWithin(v, ref, fault, a, MaxCap)

PopBackOp(v, fault) ==
    /\ vec[v].live /\ vec[v].size > 0
    /\ Return(pop_back(Call(fault, 0), v), "pop_back", v, v, 0, 0, NoRef)

ReserveOp(v, n, fault, a) ==
    /\ vec[v].live
    /\ Return(reserve(Call(fault, 0), v, n, a), "reserve", v, v, n, 0, NoRef)

ShrinkToFitOp(v, fault, a) ==
    /\ vec[v].live
    /\ Return(shrink_to_fit(Call(fault, 0), v, a), "shrink_to_fit", v, v, 0, 0, NoRef)

ClearOp(v, fault) ==
    /\ vec[v].live
    /\ Return(clear(Call(fault, 0), v), "clear", v, v, 0, 0, NoRef)

SwapOp(v, o) ==
    /\ vec[v].live /\ vec[o].live
    /\ Return(swap(Call(0, 0), v, o), "swap", v, o, 0, 0, NoRef)

InsertOp(v, index, ref, fault, a) ==
    /\ vec[v].live /\ CanGrow(v, MaxCap) /\ index <= vec[v].size
    /\ LET m == Call(fault, IF ref.self THEN 0 ELSE ref.at) IN
       Return(insert(m, v, index, RefVal(m, v, ref), a), "insert", v, v, index, 0, ref)

EraseOp(v, f, l, fault) ==
    /\ vec[v].live /\ f <= l /\ l <= vec[v].size
    /\ Return(erase(Call(fault, 0), v, f, l), "erase", v, v, f, l, NoRef)

EraseOneOp(v, index, fault) ==
    /\ vec[v].live /\ index < vec[v].size
    /\ Return(erase1(Call(fault, 0), v, index), "erase1", v, v, index, index + 1, NoRef)

Faults == 0..MaxFault

Init ==
    /\ vec = [v \in Ids |-> NoVec]
    /\ heap = [a \in Addrs |-> NoBlock]
    /\ inst = 0
    /\ last = NotObserved

\* no observed call has ended the run yet
Running == last = NotObserved

\* the calls on the containers of V that need no second container
CallStep(V) ==
    \/ Running /\ \E v \in V : DefaultCtorOp(v)
    \/ Running /\ \E d \in V, s \in V, f \in Faults, a \in FreeAddrs : CopyAssignOp(d, s, f, a)
    \/ Running /\ \E d \in V, s \in V, f \in Faults : MoveAssignOp(d, s, f)
    \/ Running /\ \E v \in V : DestructorOp(v)
    \/ Running /\ \E v \in V, f \in Faults, a \in FreeAddrs :
          \E ref \in Refs(v) : PushBackOp(v, ref, f, a)
    \/ Running /\ \E v \in V, f \in Faults : PopBackOp(v, f)
    \/ Running /\ \E v \in V, n \in 0..MaxCap, f \in Faults, a \in FreeAddrs : ReserveOp(v, n, f, a)
    \/ Running /\ \E v \in V, f \in Faults, a \in FreeAddrs : ShrinkToFitOp(v, f, a)
    \/ Running /\ \E v \in V, f \in Faults : ClearOp(v, f)
    \/ Running /\ \E v \in V, o \in V : SwapOp(v, o)
    \/ Running /\ \E v \in V, i \in 0..MaxCap, f \in Faults, a \in FreeAddrs :
          \E ref \in Refs(v) : InsertOp(v, i, ref, f, a)
    \/ Running /\ \E v \in V, i \in 0..MaxCap, j \in 0..MaxCap, f \in Faults : EraseOp(v, i, j, f)
    \/ Running /\ \E v \in V, i \in 0..MaxCap, f \in Faults : EraseOneOp(v, i, f)

\* the constructions of a container of V from another one
FromOtherStep(V) ==
    \/ Running /\ \E d \in V, s \in V, f \in Faults, a \in FreeAddrs : CopyCtorOp(d, s, f, a)
    \/ Running /\ \E d \in V, s \in V, f \in Faults : MoveCtorOp(d, s, f)

Next == CallStep(Vecs) \/ FromOtherStep(Vecs)

Spec == Init /\ [][Next]_vars

\* runs of one container that starts empty and is only pushed to
NextPush ==
    \/ Running /\ DefaultCtorOp("a")
    \/ Running /\ \E f \in Faults, a \in FreeAddrs :
          \E ref \in Refs("a") : PushBackWithin("a", ref, f, a, MaxPushCap)

SpecPush == Init /\ [][NextPush]_vars

\* runs of a program with the single container a
NextOne == CallStep({"a"})

SpecOne == Init /\ [][NextOne]_vars

\* ------------------------------------------------------------- observations
Elems(v) == ElemsOf(vec, heap, v)
PreElems(v) == ElemsOf(last.pre, last.preheap, v)

\* size, capacity, data pointer and element values of v are those before the call
SameAsBefore(v) == vec[v] = last.pre[v] /\ Elems(v) = PreElems(v)

\* the value of the argument of the observed push_back/insert before the call
ArgBefore ==
    IF last.ref.self THEN PreElems(last.v)[last.ref.at + 1] ELSE last.ref.at

\* the caller's argument object still holds its value
ArgUnchanged ==
    IF last.ref.self THEN Elems(last.v)[last.ref.at + 1] = ArgBefore
    ELSE last.x = last.ref.at

RECURSIVE SumSizes(_)
SumSizes(S) ==
    IF S = {} THEN 0
    ELSE LET v == CHOOSE w \in S : TRUE IN
         (IF vec[v].live THEN vec[v].size ELSE 0) + SumSizes(S \ {v})

RECURSIVE Constructed(_)
Constructed(A) ==
    IF A = {} THEN 0
    ELSE LET a == CHOOSE b \in A : TRUE IN
         Cardinality({i \in DOMAIN heap[a].slots : heap[a].slots[i] # Raw})
            + Constructed(A \ {a})

\* ------------------------------------------------------------------ claims
Observed(op) == last.op = op

\* C1: push_back gives the strong guarantee on both paths: when the copy of
\* the argument into the parameter, a copy of an existing element into the
\* new block, or the construction of the new element fails, the failure
\* propagates and the container has the size, capacity, data pointer and
\* elements it had before the call; the caller's argument is unchanged.
C1_PushBackStrong ==
    Observed("push_back") =>
        /\ last.injected => last.thrown
        /\ last.thrown => /\ SameAsBefore(last.v)
                          /\ ArgUnchanged
                          /\ inst = last.preinst

\* the growth path failed at the construction of the new element in its slot
C1_Witness ==
    /\ Observed("push_back") /\ last.thrown
    /\ last.pre[last.v].size = 1 /\ last.pre[last.v].cap = 1
    /\ last.nalloc = 1 /\ last.tick = 4

\* C2: every live container has size <= capacity, and a container of
\* capacity 0 has a null data pointer and size 0, in every reachable state,
\* the states left by failed calls included.
C2_Shape ==
    \A v \in Ids : vec[v].live =>
        /\ vec[v].size <= vec[v].cap
        /\ vec[v].cap = 0 => (vec[v].data = Null /\ vec[v].size = 0)

\* an insert failed in its shifting swaps and left the container longer
C2_Witness ==
    /\ Observed("insert") /\ last.thrown
    /\ vec[last.v].size = last.pre[last.v].size + 1
    /\ \E o \in Vecs : vec[o].live /\ vec[o].cap = 0

\* C3: the element instances that exist are exactly the slots [0, size) of
\* the live containers, so their number is the sum of the sizes; a copy
\* construction that fails at its k-th element has destroyed the k-1
\* elements it built and released the new block; with every container
\* destroyed no instance remains.
C3_NoLeak ==
    /\ inst = SumSizes(Vecs)
    /\ Constructed(Addrs) = inst
    /\ \A v \in Vecs : vec[v].live /\ vec[v].data # Null =>
          \A i \in DOMAIN heap[vec[v].data].slots :
              (heap[vec[v].data].slots[i] # Raw) <=> (i <= vec[v].size)
    /\ (Observed("copy_ctor") /\ last.thrown) =>
          /\ last.ndtor = last.tick - 1
          /\ last.nalloc = 1 /\ last.nfree = 1
          /\ heap = last.preheap
    /\ (\A v \in Vecs : ~vec[v].live) => inst = 0

\* a copy construction failed at its third element
C3_Witness ==
    /\ Observed("copy_ctor") /\ last.thrown /\ last.tick = 3
    /\ last.ndtor = 2

\* the capacities doubling-plus-one growth produces from 0: 0, 1, 3, 7, 15, ...
RECURSIVE GrowthCap(_)
GrowthCap(c) == c = 0 \/ (c % 2 = 1 /\ GrowthCap((c - 1) \div 2))

\* C4: for a container that starts empty and is only pushed to, a successful
\* push_back changes the capacity only when size = capacity, and then from c
\* to 2c + 1 (capacities 0, 1, 3, 7, ...); the capacity never decreases and
\* is at least the size; the push adds one element, the pushed value, at the
\* end and keeps the earlier elements.
C4_Growth ==
    /\ \A v \in Vecs : vec[v].live => GrowthCap(vec[v].cap) /\ vec[v].size <= vec[v].cap
    /\ (Observed("push_back") /\ ~last.thrown) =>
          LET b == last.pre[last.v]
              c == vec[last.v]
          IN /\ c.cap = IF b.size = b.cap THEN 2 * b.cap + 1 ELSE b.cap
             /\ c.cap >= b.cap
             /\ c.size = b.size + 1
             /\ Elems(last.v) = Append(PreElems(last.v), ArgBefore)

\* the push that grows a full block of 3 slots to 7
C4_Witness ==
    /\ Observed("push_back") /\ ~last.thrown
    /\ last.pre[last.v].size = 3 /\ last.pre[last.v].cap = 3
    /\ vec[last.v].cap = 7 /\ vec[last.v].size = 4

\* C5: reserve(n) with n > capacity makes the capacity exactly n and keeps
\* the size and every element; with n <= capacity it changes nothing: size,
\* capacity, data pointer and elements stay and nothing is allocated.
C5_Reserve ==
    Observed("reserve") =>
        /\ (last.n > last.pre[last.v].cap /\ ~last.thrown) =>
              /\ vec[last.v].cap = last.n
              /\ vec[last.v].size = last.pre[last.v].size
              /\ Elems(last.v) = PreElems(last.v)
        /\ last.n <= last.pre[last.v].cap =>
              /\ ~last.thrown
              /\ SameAsBefore(last.v)
              /\ heap = last.preheap
              /\ last.nalloc = 0 /\ last.ncopy = 0

\* a reserve of a container of two elements to a capacity that is not the doubled one
C5_Witness ==
    /\ Observed("reserve") /\ ~last.thrown
    /\ last.n > last.pre[last.v].cap
    /\ last.n # 2 * last.pre[last.v].cap + 1
    /\ last.pre[last.v].size = 2

\* C6: a successful shrink_to_fit leaves capacity = size and keeps the size
\* and every element; with size = capacity before the call it changes
\* nothing and keeps the data pointer; with size 0 and capacity > 0 it ends
\* in the empty-storage state and the old block is released.
C6_ShrinkToFit ==
    Observed("shrink_to_fit") =>
        LET b == last.pre[last.v] IN
        /\ ~last.thrown =>
              /\ vec[last.v].cap = vec[last.v].size
              /\ vec[last.v].size = b.size
              /\ Elems(last.v) = PreElems(last.v)
        /\ b.size = b.cap =>
              /\ ~last.thrown
              /\ SameAsBefore(last.v)
              /\ heap = last.preheap
              /\ last.nalloc = 0
        /\ (b.size = 0 /\ b.cap > 0) =>
              /\ ~last.thrown
              /\ vec[last.v] = EmptyVec
              /\ ~heap[b.data].alloc
              /\ last.nfree = 1 /\ last.nalloc = 0

\* a shrink of a container that holds elements and spare capacity
C6_Witness ==
    /\ Observed("shrink_to_fit") /\ ~last.thrown
    /\ last.pre[last.v].size = 2 /\ last.pre[last.v].cap = 3
    /\ vec[last.v].cap = 2

CopyBased == {"reserve", "shrink_to_fit", "copy_ctor", "copy_assign"}

\* C7: when an element copy fails during reserve, shrink_to_fit, copy
\* construction or copy assignment, the failure propagates, and the receiver
\* and the source have the size, capacity, data pointer and elements they
\* had before the call.
C7_CopyStrong ==
    last.op \in CopyBased =>
        /\ last.injected => last.thrown
        /\ last.thrown =>
              /\ last.tick <= last.pre[last.s].size
              /\ SameAsBefore(last.v)
              /\ SameAsBefore(last.s)

\* a copy assignment to a non-empty container failed at its second element
C7_Witness ==
    /\ Observed("copy_assign") /\ last.thrown /\ last.tick = 2
    /\ last.pre[last.v].size > 0

\* C8: a successful copy construction, or copy assignment to another
\* container, gives the destination the source's size as size and as
\* capacity, the source's elements index by index, and a block of its own;
\* the source is unchanged; a copy of an empty source has capacity 0 and a
\* null data pointer.
C8_Copy ==
    (last.op \in {"copy_ctor", "copy_assign"} /\ ~last.thrown /\ last.v # last.s) =>
        LET src == last.pre[last.s]
            dst == vec[last.v]
        IN /\ dst.live
           /\ dst.size = src.size
           /\ dst.cap = src.size
           /\ Elems(last.v) = PreElems(last.s)
           /\ dst.data # Null => dst.data # vec[last.s].data
           /\ SameAsBefore(last.s)
           /\ src.size = 0 => (dst.cap = 0 /\ dst.data = Null)

\* a copy assignment from a source with spare capacity to a larger destination
C8_Witness ==
    /\ Observed("copy_assign") /\ ~last.thrown /\ last.v # last.s
    /\ last.pre[last.s].size = 1 /\ last.pre[last.s].cap = 3
    /\ last.pre[last.v].cap = 3 /\ last.pre[last.v].size = 2

\* C9: move construction and move assignment from another container give the
\* destination the source's data pointer, size and capacity, leave the
\* source empty (size 0, capacity 0, null data pointer) and perform no
\* element operation; move assignment destroys every element the
\* destination held and releases its old block.
C9_Move ==
    (last.op \in {"move_ctor", "move_assign"} /\ last.v # last.s) =>
        LET src == last.pre[last.s]
            old == last.pre[last.v]
        IN /\ ~last.thrown
           /\ vec[last.v] = [src EXCEPT !.live = TRUE]
           /\ vec[last.s] = EmptyVec
           /\ Elems(last.v) = PreElems(last.s)
           /\ last.ncopy = 0 /\ last.tick = 0 /\ last.nalloc = 0
           /\ last.ndtor = old.size
           /\ old.data # Null => (~heap[old.data].alloc /\ last.nfree = 1)
           /\ old.data = Null => last.nfree = 0

\* a move assignment between two non-empty containers
C9_Witness ==
    /\ Observed("move_assign") /\ last.v # last.s
    /\ last.pre[last.v].size = 2 /\ last.pre[last.s].size = 1

\* C10: copy assignment and move assignment of a container to itself change
\* nothing: size, capacity, data pointer and elements stay, no element is
\* copied, constructed or destroyed, no block is allocated or released.
C10_SelfAssign ==
    (last.op \in {"copy_assign", "move_assign"} /\ last.v = last.s) =>
        /\ ~last.thrown
        /\ vec = last.pre
        /\ heap = last.preheap
        /\ inst = last.preinst
        /\ last.ncopy = 0 /\ last.ndtor = 0 /\ last.tick = 0
        /\ last.nalloc = 0 /\ last.nfree = 0

\* a self move assignment of a container that holds elements
C10_Witness ==
    /\ Observed("move_assign") /\ last.v = last.s
    /\ vec[last.v].size = 2

\* the sequence s without its elements at indices [f, l) (0-based)
Without(s, f, l) == SubSeq(s, 1, f) \o SubSeq(s, l + 1, Len(s))

\* C11: a successful erase of the index range [f, l), erase(pos) being the
\* range [p, p + 1), reduces the size by l - f, leaves the old elements
\* [0, f) followed by the old elements [l, size) in their order, destroys
\* l - f elements of the container, keeps capacity and data pointer, and
\* returns begin() + f, which is end() when the range reached the old end;
\* an empty range changes nothing.
C11_Erase ==
    (last.op \in {"erase", "erase1"} /\ ~last.thrown) =>
        LET f == last.n
            l == last.n2
            b == last.pre[last.v]
            c == vec[last.v]
        IN /\ Observed("erase1") => l = f + 1
           /\ c.size = b.size - (l - f)
           /\ Elems(last.v) = Without(PreElems(last.v), f, l)
           /\ Len(last.dlog) = l - f
           /\ inst = last.preinst - (l - f)
           /\ c.cap = b.cap /\ c.data = b.data
           /\ last.ret = f
           /\ l = b.size => last.ret = c.size
           /\ f = l => (SameAsBefore(last.v) /\ heap = last.preheap)
           /\ ~last.err

\* the first of three elements is erased and the two behind it differ
C11_Witness ==
    /\ Observed("erase") /\ ~last.thrown
    /\ last.n = 0 /\ last.n2 = 1
    /\ last.pre[last.v].size = 3
    /\ PreElems(last.v)[2] # PreElems(last.v)[3]

\* the sequence s with value x put in at index k (0-based)
WithAt(s, k, x) == SubSeq(s, 1, k) \o << x >> \o SubSeq(s, k + 1, Len(s))

\* C12: a successful insert at index k increases the size by one, puts the
\* value at index k, keeps the old elements [0, k) in place and the old
\* elements [k, size) behind it in their order, and returns begin() + k of
\* the storage after the call, with spare capacity as well as with a
\* reallocation, where the capacity follows the growth rule of push_back.
C12_Insert ==
    (Observed("insert") /\ ~last.thrown) =>
        LET k == last.n
            b == last.pre[last.v]
            c == vec[last.v]
        IN /\ c.size = b.size + 1
           /\ Elems(last.v) = WithAt(PreElems(last.v), k, ArgBefore)
           /\ last.ret = k
           /\ c.cap = IF b.size = b.cap THEN 2 * b.cap + 1 ELSE b.cap
           /\ b.size < b.cap => (c.data = b.data /\ last.nalloc = 0)
           /\ b.size = b.cap => (c.data # Null /\ last.nalloc = 1)
           /\ inst = last.preinst + 1
           /\ ~last.err

\* an insert at the front of a full container reallocates
C12_Witness ==
    /\ Observed("insert") /\ ~last.thrown
    /\ last.n = 0
    /\ last.pre[last.v].size = 1 /\ last.pre[last.v].cap = 1
    /\ PreElems(last.v)[1] # ArgBefore
    /\ vec[last.v].cap = 3

\* C13: insert gives the strong guarantee its annotation states: when one
\* element operation of the call fails (the copy of the value, a copy during
\* growth, the construction of the appended element, or a move inside a
\* shifting swap), the container has the size, capacity and elements it had
\* before the call.
C13_InsertStrong ==
    (Observed("insert") /\ last.thrown) =>
        /\ vec[last.v].size = last.pre[last.v].size
        /\ vec[last.v].cap = last.pre[last.v].cap
        /\ Elems(last.v) = PreElems(last.v)

\* C14: a.push_back(a[i]) appends the value a[i] had before the call and
\* keeps the earlier elements, with spare capacity as well as with a
\* reallocation; the value is not read from released or destroyed storage.
C14_PushFromSelf ==
    (Observed("push_back") /\ last.ref.self /\ ~last.thrown) =>
        /\ vec[last.v].size = last.pre[last.v].size + 1
        /\ Elems(last.v) = Append(PreElems(last.v), PreElems(last.v)[last.ref.at + 1])
        /\ ~last.err

\* a full container of three elements is pushed its own last element, which
\* differs from its first, and reallocates
C14_Witness ==
    /\ Observed("push_back") /\ last.ref.self /\ ~last.thrown
    /\ last.pre[last.v].size = 3 /\ last.pre[last.v].cap = 3
    /\ last.ref.at = 2
    /\ PreElems(last.v)[3] # PreElems(last.v)[1]
    /\ last.nalloc = 1 /\ last.nfree = 1

\* C15: pop_back on a non-empty container destroys exactly its last element
\* and lowers size by one; clear destroys the elements one at a time from the
\* highest index down to 0 and leaves size 0. Both keep the capacity, the
\* data pointer and the values of the remaining elements, perform no element
\* copy or move, allocate and release nothing, and never fail.
C15_PopClear ==
    LET b == last.pre[last.v]  c == vec[last.v] IN
    /\ last.op \in {"pop_back", "clear"} =>
          /\ ~last.thrown /\ ~last.err
          /\ last.tick = 0 /\ last.ncopy = 0
          /\ last.nalloc = 0 /\ last.nfree = 0
          /\ c.live /\ c.cap = b.cap /\ c.data = b.data
          /\ c.data # Null => /\ heap[c.data].alloc
                              /\ Len(heap[c.data].slots) = c.cap
          /\ inst = last.preinst - Len(last.dlog)
    /\ Observed("pop_back") =>
          /\ last.dlog = << b.size - 1 >>
          /\ c.size = b.size - 1
          /\ Elems(last.v) = SubSeq(PreElems(last.v), 1, b.size - 1)
    /\ Observed("clear") =>
          /\ last.dlog = [i \in 1..b.size |-> b.size - i]
          /\ c.size = 0
          /\ Elems(last.v) = << >>

\* three elements are cleared, index 2 then 1 then 0, and the capacity stays 3
C15_Witness ==
    /\ Observed("clear") /\ last.pre[last.v].size = 3
    /\ last.dlog = << 2, 1, 0 >>
    /\ vec[last.v].cap = 3 /\ vec[last.v].size = 0
    /\ ~last.thrown

\* the live containers whose data pointer is block p
Owners(p) == {v \in Ids : vec[v].live /\ vec[v].data = p}

\* C16: exclusive block ownership. Between calls every allocated block is the
\* data pointer of exactly one live container and has that container's
\* capacity, no two live containers share a non-null data pointer, no call
\* released a block twice or touched a released one, no temporary outlives
\* its call, and when no container is live no block is allocated.
C16_Ownership ==
    /\ \A p \in Addrs : heap[p].alloc => Cardinality(Owners(p)) = 1
    /\ \A v \in Ids : (vec[v].live /\ vec[v].data # Null) =>
          /\ heap[vec[v].data].alloc
          /\ Len(heap[vec[v].data].slots) = vec[v].cap
          /\ Owners(vec[v].data) = {v}
    /\ ~vec[Tmp].live
    /\ ~Running => ~last.err
    /\ (\A v \in Vecs : ~vec[v].live) => \A p \in Addrs : ~heap[p].alloc

\* a copy assignment between two containers that own distinct blocks failed
\* after allocating the block of its temporary, which it released again
C16_Witness ==
    /\ Observed("copy_assign") /\ last.thrown
    /\ last.nalloc = 1 /\ last.nfree = 1
    /\ vec["a"].live /\ vec["b"].live
    /\ vec["a"].data # Null /\ vec["b"].data # Null
    /\ vec["a"].data # vec["b"].data

====
